---- MODULE Spec2Model ----
(***************************************************************************)
(* BlobDBImpl (utilities/blob_db/blob_db_impl.cc): a blob log beside a     *)
(* primary key-value store.  Put frames one compressed, checksummed block  *)
(* per key/value pair into the log file and stores an index record         *)
(* (file number, offset, size) under the key in the primary store; Get     *)
(* resolves the index record and reads the block back.                     *)
(*                                                                         *)
(* Byte strings are sequences of integers 0..255.  32-bit CRC words are    *)
(* four bytes, least significant first (TLC integers are 32-bit signed).   *)
(***************************************************************************)
EXTENDS Integers, Sequences, FiniteSets, TLC

\* ------------------------------------------------------------------------
\* Bounds of the model
\* ------------------------------------------------------------------------
\* Put calls started in one behaviour.
MaxPuts == 2
\* I/O steps that may fail in one behaviour.
MaxFails == 2
\* Threads calling into the BlobDBImpl concurrently.
NumThreads == 2
\* The sync interval is modelled in units of SyncScale bytes, so that a
\* handful of records crosses it.
SyncScale == 1048576

\* ------------------------------------------------------------------------
\* Program constants
\* ------------------------------------------------------------------------
kBlockHeaderSize == 8
kBytesPerSync == (1024 * 1024 * 128) \div SyncScale
\* table/format.h: 1-byte type + 32-bit crc
kBlockTrailerSize == 5
\* CompressionType (rocksdb/options.h)
kNoCompression == 0
kLZ4Compression == 4

\* ------------------------------------------------------------------------
\* Fixed-width and variable-length integer coding (util/coding.h)
\* ------------------------------------------------------------------------
RECURSIVE EncodeFixed(_, _)
\* EncodeFixed32 / EncodeFixed64: n bytes, little-endian.
EncodeFixed(n, v) ==
    IF n = 0 THEN <<>> ELSE <<v % 256>> \o EncodeFixed(n - 1, v \div 256)

RECURSIVE PutVarint64(_)
\* PutVarint64: 7 bits per byte, high bit set on every byte but the last.
PutVarint64(v) ==
    IF v >= 128 THEN <<(v % 128) + 128>> \o PutVarint64(v \div 128)
    ELSE <<v>>

RECURSIVE GetVarintFrom(_, _, _)
\* Decoding loop of GetVarint32Ptr/GetVarint64Ptr from position i of input,
\* reading at most maxBytes bytes: <<TRUE, value, next position>> or
\* <<FALSE, 0, 0>>.  Values beyond 31 bits are reported as undecodable, the
\* model holding no such number.
GetVarintFrom(input, i, maxBytes) ==
    IF i > Len(input) \/ maxBytes = 0 THEN <<FALSE, 0, 0>>
    ELSE IF input[i] < 128 THEN <<TRUE, input[i], i + 1>>
    ELSE LET r == GetVarintFrom(input, i + 1, maxBytes - 1)
         IN IF ~r[1] \/ r[2] >= 16777216 THEN <<FALSE, 0, 0>>
            ELSE <<TRUE, (input[i] - 128) + 128 * r[2], r[3]>>

\* GetVarint64(&slice, &v): at most 10 bytes.
GetVarint64(input, i) == GetVarintFrom(input, i, 10)
\* GetVarint32: at most 5 bytes.
GetVarint32(input, i) == GetVarintFrom(input, i, 5)

\* ------------------------------------------------------------------------
\* crc32c (util/crc32c.h): Value, Extend, Mask, Unmask
\* ------------------------------------------------------------------------
\* A 32-bit word is its four bytes, least significant first (the layout
\* EncodeFixed32 stores); bit-level steps use the set of its set bits.
\* Reflected Castagnoli polynomial 0x82F63B78 as its set bits.
kCrcPoly == {31, 25, 23, 22, 21, 20, 18, 17, 13, 12, 11, 9, 8, 6, 5, 4, 3}
\* kMaskDelta = 0xa282ead8
kMaskDelta == <<216, 234, 130, 162>>

ByteBits(b) == {i \in 0 .. 7 : (b \div (2 ^ i)) % 2 = 1}
Bit(w, i) == IF i \in w THEN 1 ELSE 0
\* Byte j (0 = least significant) of a set of bits.
ByteOf(w, j) ==
    Bit(w, 8 * j) + 2 * Bit(w, 8 * j + 1) + 4 * Bit(w, 8 * j + 2)
    + 8 * Bit(w, 8 * j + 3) + 16 * Bit(w, 8 * j + 4) + 32 * Bit(w, 8 * j + 5)
    + 64 * Bit(w, 8 * j + 6) + 128 * Bit(w, 8 * j + 7)
WordToBytes(w) == <<ByteOf(w, 0), ByteOf(w, 1), ByteOf(w, 2), ByteOf(w, 3)>>

\* a ^ b on bytes.
XorByte ==
    [a \in 0 .. 255 |-> [b \in 0 .. 255 |->
        ByteOf((ByteBits(a) \ ByteBits(b)) \cup (ByteBits(b) \ ByteBits(a)), 0)]]

\* One bit of the bitwise CRC: shift right, xor the polynomial on carry-out.
CrcRound(c) ==
    LET s == {i - 1 : i \in c \ {0}}
    IN IF 0 \in c THEN (s \ kCrcPoly) \cup (kCrcPoly \ s) ELSE s
\* The byte table of the table-driven CRC: eight rounds on each byte value.
kCrcTable ==
    [b \in 0 .. 255 |->
        WordToBytes(CrcRound(CrcRound(CrcRound(CrcRound(
                    CrcRound(CrcRound(CrcRound(CrcRound(ByteBits(b))))))))))]
\* crc = table[(crc ^ b) & 0xff] ^ (crc >> 8)
CrcByte(c, b) ==
    LET e == kCrcTable[XorByte[c[1]][b]]
    IN <<XorByte[e[1]][c[2]], XorByte[e[2]][c[3]], XorByte[e[3]][c[4]], e[4]>>
RECURSIVE CrcBytes(_, _, _)
CrcBytes(c, data, i) ==
    IF i > Len(data) THEN c
    ELSE LET n == CrcByte(c, data[i])
         IN IF n[1] >= 0 THEN CrcBytes(n, data, i + 1) ELSE n
\* w ^ 0xffffffff
Not32(w) == <<255 - w[1], 255 - w[2], 255 - w[3], 255 - w[4]>>
\* crc32c::Extend(init_crc, data, n)
Extend(init_crc, data) == Not32(CrcBytes(Not32(init_crc), data, 1))
\* crc32c::Value(data, n)
Value(data) == Extend(<<0, 0, 0, 0>>, data)

RECURSIVE AddBytes(_, _, _, _)
\* a + b mod 2^32
AddBytes(a, b, i, carry) ==
    IF i > 4 THEN <<>>
    ELSE LET s == a[i] + b[i] + carry
         IN <<s % 256>> \o AddBytes(a, b, i + 1, s \div 256)
RECURSIVE SubBytes(_, _, _, _)
\* a - b mod 2^32
SubBytes(a, b, i, borrow) ==
    IF i > 4 THEN <<>>
    ELSE LET d == a[i] - b[i] - borrow
         IN <<(d + 256) % 256>> \o SubBytes(a, b, i + 1, IF d < 0 THEN 1 ELSE 0)
\* w rotated right by one bit: (w >> 1) | (w << 31)
RotateRight1(w) ==
    [i \in 1 .. 4 |-> (w[i] \div 2) + 128 * (w[(i % 4) + 1] % 2)]
\* w rotated left by one bit: (w << 1) | (w >> 31)
RotateLeft1(w) ==
    [i \in 1 .. 4 |-> ((2 * w[i]) % 256) + (w[((i + 2) % 4) + 1] \div 128)]
\* w rotated by sixteen bits.
Rotate16(w) == <<w[3], w[4], w[1], w[2]>>
\* crc32c::Mask: ((crc >> 15) | (crc << 17)) + kMaskDelta
Mask(crc) == AddBytes(RotateLeft1(Rotate16(crc)), kMaskDelta, 1, 0)
\* crc32c::Unmask: rot = masked_crc - kMaskDelta; (rot >> 17) | (rot << 15)
Unmask(masked_crc) ==
    RotateRight1(Rotate16(SubBytes(masked_crc, kMaskDelta, 1, 0)))

\* ------------------------------------------------------------------------
\* Block codec: BlockBuilder, CompressBlock, the compressor
\* ------------------------------------------------------------------------
\* BlockBuilder(1, false): Add(key, value) then Finish().  One entry with
\* shared = 0, then the restart array {0} and the restart count 1.
BlockBuilderFinish(key, value) ==
    PutVarint64(0) \o PutVarint64(Len(key)) \o PutVarint64(Len(value))
    \o key \o value \o EncodeFixed(4, 0) \o EncodeFixed(4, 1)

RECURSIVE RunLength(_, _)
\* Length of the run of equal bytes that starts at position i (at most 255).
RunLength(raw, i) ==
    IF i < Len(raw) /\ raw[i + 1] = raw[i]
    THEN LET r == RunLength(raw, i + 1) IN IF r >= 255 THEN 255 ELSE r + 1
    ELSE 1
RECURSIVE Runs(_, _)
Runs(raw, i) ==
    IF i > Len(raw) THEN <<>>
    ELSE LET n == RunLength(raw, i) IN <<n, raw[i]>> \o Runs(raw, i + n)
\* The compressor (LZ4_Compress, compress_format_version 2): the varint32
\* decompressed size, then the compressed stream.  The stream is modelled as
\* a run-length coding: a lossless coder whose output length depends on the
\* input and differs from the input.
LZ4_Compress(raw) == PutVarint64(Len(raw)) \o Runs(raw, 1)

RECURSIVE Expand(_, _)
Expand(stream, i) ==
    IF i + 1 > Len(stream) THEN <<>>
    ELSE [j \in 1 .. stream[i] |-> stream[i + 1]] \o Expand(stream, i + 2)
\* LZ4_Uncompress: <<TRUE, raw>>, or <<FALSE, <<>>>> when the input is not a
\* compressed stream of the declared size.
LZ4_Uncompress(input) ==
    LET h == GetVarint32(input, 1)
    IN IF ~h[1] \/ (Len(input) - h[3] + 1) % 2 # 0 THEN <<FALSE, <<>>>>
       ELSE LET raw == Expand(input, h[3])
            IN IF Len(raw) = h[2] THEN <<TRUE, raw>> ELSE <<FALSE, <<>>>>

\* GoodCompressionRatio: the compressed block must save at least 12.5%.
GoodCompressionRatio(compressed_size, raw_size) ==
    compressed_size < raw_size - (raw_size \div 8)

\* CompressBlock(raw, ..., &type, ...): <<block contents, type>>; the type
\* falls back to kNoCompression when the ratio is not good.
CompressBlock(raw, type) ==
    LET out == LZ4_Compress(raw)
    IN IF type = kLZ4Compression /\ GoodCompressionRatio(Len(out), Len(raw))
       THEN <<out, kLZ4Compression>>
       ELSE <<raw, kNoCompression>>

\* Block(contents) + NewIterator + SeekToFirst + value(): <<status, value>>.
\* Block sizes of the model are below 2^24, so a restart count with a
\* non-zero high byte is past the end of the block.
BlockFirstValue(data) ==
    LET n == Len(data)
        bad == <<"Corruption", <<>>>>
    IN IF n < 8 THEN bad
       ELSE LET nr == SubSeq(data, n - 3, n)
                num_restarts == nr[1] + 256 * nr[2] + 65536 * nr[3]
                restart_offset == n - (1 + num_restarts) * 4
            IN IF nr[4] # 0 \/ restart_offset < 0 THEN bad
               ELSE IF num_restarts = 0 THEN <<"Undefined", <<>>>>
               ELSE LET r0 == SubSeq(data, restart_offset + 1, restart_offset + 4)
                        p == r0[1] + 256 * r0[2] + 65536 * r0[3]
                    IN IF r0[4] # 0 \/ p > restart_offset THEN bad
                       ELSE IF p = restart_offset THEN <<"Undefined", <<>>>>
                       ELSE LET limit == SubSeq(data, 1, restart_offset)
                                shared == GetVarint32(limit, p + 1)
                                non_shared ==
                                    IF shared[1] THEN GetVarint32(limit, shared[3])
                                    ELSE <<FALSE, 0, 0>>
                                value_length ==
                                    IF non_shared[1]
                                    THEN GetVarint32(limit, non_shared[3])
                                    ELSE <<FALSE, 0, 0>>
                            IN IF ~value_length[1] THEN bad
                               ELSE IF shared[2] > 0 THEN bad
                               ELSE IF restart_offset - (value_length[3] - 1)
                                       < non_shared[2] + value_length[2]
                               THEN bad
                               ELSE <<"OK",
                                      SubSeq(limit,
                                             value_length[3] + non_shared[2],
                                             value_length[3] + non_shared[2]
                                                + value_length[2] - 1)>>

\* ------------------------------------------------------------------------
\* The log file header
\* ------------------------------------------------------------------------
\* kBlockBasedTableMagicNumber = 0x88e241b785f4cff7, as PutVarint64 encodes it.
kBlockBasedTableMagicNumber ==
    <<247, 159, 211, 175, 248, 182, 144, 241, 136, 1>>

\* createHeader(bdb_options, header_str, ttl_range): the properties added to
\* the PropertyBlockBuilder, in the order of the Add calls, each value as
\* its varint64 bytes.  ttl_range is <<>> for nullptr.
createHeader(has_ttl, ttl_range) ==
    << <<"magic", kBlockBasedTableMagicNumber>>,
       <<"version", PutVarint64(0)>>,
       <<"has_ttl", PutVarint64(IF has_ttl THEN 1 ELSE 0)>>,
       <<"compression", PutVarint64(kLZ4Compression)>> >>
    \o (IF has_ttl
        THEN << <<"earliest",
                  PutVarint64(IF ttl_range # <<>> THEN ttl_range[1] ELSE 0)>>,
                <<"latest",
                  PutVarint64(IF ttl_range # <<>> THEN ttl_range[2] ELSE 0)>> >>
        ELSE <<>>)

RECURSIVE EntriesSize(_, _)
EntriesSize(props, i) ==
    IF i > Len(props) THEN 0
    ELSE 3 + Len(props[i][1]) + Len(props[i][2]) + EntriesSize(props, i + 1)
\* Size of PropertyBlockBuilder::Finish(): a block with restart interval 1,
\* so every entry is stored unshared and has a restart point.
HeaderSize(props) == EntriesSize(props, 1) + 4 * Len(props) + 4

\* ------------------------------------------------------------------------
\* State
\* ------------------------------------------------------------------------
\* Keys and values the callers use: byte strings.  The empty value gives a
\* block the compressor cannot shrink (stored with kNoCompression); the run
\* of zeros gives one it can (stored with kLZ4Compression).
Keys == {<<1>>, <<2>>}
Values == {<<>>, <<0, 0, 0, 0, 0, 0, 0, 0>>}
Threads == 1 .. NumThreads
NoThread == 0

VARIABLES
    blob_dir_empty,     \* bdb_options_.blob_dir.empty(), hence blob_dir_.empty()
    has_ttl,            \* bdb_options_.has_ttl
    writer_offset_,
    next_sync_offset_,
    file_writer_,       \* TRUE once file_writer_ holds a writer
    file_reader_,       \* TRUE once file_reader_ holds a reader
    mutex_,             \* the thread holding mutex_, or NoThread
    dir_created,        \* the blob directory exists
    blob_log,           \* the log file: what the writer has accepted
    os_length,          \* bytes of the log file handed to the OS by Flush
    db,                 \* the primary store db_: key -> index entry, <<>> absent
    open_s,             \* status of the last Open call, "none" before any
    th,                 \* per thread: position and locals of its call
    puts,               \* history: Put calls started
    fails,              \* history: I/O steps that have failed
    syncs,              \* history: Sync calls issued
    put_failed,         \* history: some Put has returned an error
    last_put,           \* history: key -> <<value of the last Put that returned OK>>
    after_failure,      \* history: keys whose last OK Put followed a failed Put
    ttl_called,         \* history: keys PutUntil/PutWithTTL was called for
    ttl_s,              \* history: status the last PutUntil returned
    orphan,             \* history: file range of the last record whose
                        \* index put failed, <<>> if none
    flipped             \* history: file offset of the byte a bit was flipped
                        \* in on disk, -1 while the disk is sound

vars == <<blob_dir_empty, has_ttl, writer_offset_, next_sync_offset_,
          file_writer_, file_reader_, mutex_, dir_created, blob_log,
          os_length, db, open_s, th, puts, fails, syncs, put_failed, last_put,
          after_failure, ttl_called, ttl_s, orphan, flipped>>

NoFile == [created |-> FALSE, header_size |-> 0, header |-> <<>>, data |-> <<>>]
NoHandle == [offset |-> 0, size |-> 0]
\* A thread outside any call.  The last five fields are history: whether
\* mutex_ was held when the Put was called, writer_offset_ and db when the
\* Put took the lock, the I/O steps the Put has called, and last_put of the
\* key when the Get read the primary store.
ThreadInit ==
    [pc |-> "idle", op |-> "none", key |-> <<>>, value |-> <<>>,
     block_contents |-> <<>>, trailer |-> <<>>, handle |-> NoHandle,
     s |-> "OK", waited |-> FALSE, start_offset |-> 0, start_db |-> <<>>,
     steps |-> <<>>, expect |-> <<>>]

\* The constructor BlobDBImpl::BlobDBImpl.
Init ==
    /\ blob_dir_empty \in BOOLEAN
    /\ has_ttl \in BOOLEAN
    /\ writer_offset_ = 0
    /\ next_sync_offset_ = kBytesPerSync
    /\ file_writer_ = FALSE
    /\ file_reader_ = FALSE
    /\ mutex_ = NoThread
    /\ dir_created = FALSE
    /\ blob_log = NoFile
    /\ os_length = 0
    /\ db = [k \in Keys |-> <<>>]
    /\ open_s = "none"
    /\ th = [t \in Threads |-> ThreadInit]
    /\ puts = 0
    /\ fails = 0
    /\ syncs = 0
    /\ put_failed = FALSE
    /\ last_put = [k \in Keys |-> <<>>]
    /\ after_failure = {}
    /\ ttl_called = {}
    /\ ttl_s = "none"
    /\ orphan = <<>>
    /\ flipped = -1

\* ------------------------------------------------------------------------
\* The file abstractions
\* ------------------------------------------------------------------------
Status(ok) == IF ok THEN "OK" ELSE "IOError"
\* Length of everything the writer has accepted.
FileLength(f) == f.header_size + Len(f.data)
\* WritableFileWriter::Append: a failed Append adds nothing of its data.
FileAppend(f, bytes, ok) == IF ok THEN [f EXCEPT !.data = @ \o bytes] ELSE f
\* WritableFileWriter::Flush: hands everything accepted to the OS.
FileFlush(f, flushed, ok) == IF ok THEN FileLength(f) ELSE flushed
\* RandomAccessFile::Read(offset, n): the bytes of [offset, offset + n) the OS
\* holds; fewer than n at the end of the file.  The header bytes are not
\* modelled as bytes: no handle names an offset inside the header.
ReadAt(f, flushed, offset, n) ==
    LET from == offset - f.header_size + 1
        last == (IF offset + n < flushed THEN offset + n ELSE flushed)
                - f.header_size
    IN IF from < 1 THEN <<>> ELSE SubSeq(f.data, from, last)

\* ReadBlock + ReadBlockContents (table/format.cc) with a kCRC32c footer:
\* <<status, uncompressed block contents>>.
ReadBlockContents(f, flushed, handle) ==
    LET n == handle.size
        contents == ReadAt(f, flushed, handle.offset, n + kBlockTrailerSize)
    IN IF Len(contents) # n + kBlockTrailerSize
       THEN <<"Corruption", <<>>>>   \* truncated block read
       ELSE LET data == SubSeq(contents, 1, n)
                type == contents[n + 1]
                value == Unmask(SubSeq(contents, n + 2, n + 5))
                actual == Value(SubSeq(contents, 1, n + 1))
            IN IF actual # value
               THEN <<"Corruption", <<>>>>   \* block checksum mismatch
               ELSE IF type = kNoCompression THEN <<"OK", data>>
               ELSE IF type = kLZ4Compression
               THEN LET u == LZ4_Uncompress(data)
                    IN IF u[1] THEN <<"OK", u[2]>> ELSE <<"Corruption", <<>>>>
               ELSE <<"Corruption", <<>>>>   \* bad block type

\* ------------------------------------------------------------------------
\* BlobDBImpl::Open
\* ------------------------------------------------------------------------
\* The steps of Open that can fail, in order.
OpenOutcomes == {"dir", "file", "append", "reader", "ok"}

\* Variant of NoBlobDir: Open does not test blob_dir_.
NoBlobDirUnchecked(dir_empty) == FALSE

\* if (blob_dir_.empty()) return Status::NotSupported(...)
NoBlobDir(dir_empty) == dir_empty

\* Open().  outcome names the first step that fails ("ok": none does).
\* createHeader hands back a Slice into the buffer of its local
\* PropertyBlockBuilder, destroyed when createHeader returns: the size of
\* the header is what Finish reported, its bytes are what that memory holds
\* when Append copies them, the block (intact) or something else.
Open(outcome, intact) ==
    /\ open_s # "OK"
    /\ outcome = "ok" \/ fails < MaxFails
    /\ IF NoBlobDir(blob_dir_empty)
       THEN /\ open_s' = "NotSupported"
            /\ outcome = "ok" /\ intact
            /\ UNCHANGED <<writer_offset_, file_writer_, file_reader_,
                           dir_created, blob_log, os_length, fails>>
       ELSE LET header_slice == createHeader(has_ttl, <<>>)
                created == outcome \in {"append", "reader", "ok"}
                appended == outcome \in {"reader", "ok"}
            IN /\ open_s' = Status(outcome = "ok")
               /\ outcome \in {"dir", "file", "append"} => intact
               /\ dir_created' = (dir_created \/ outcome # "dir")
               /\ blob_log' =
                      IF appended
                      THEN [created |-> TRUE,
                            header_size |-> HeaderSize(header_slice),
                            header |-> IF intact THEN header_slice ELSE <<>>,
                            data |-> <<>>]
                      ELSE IF created THEN [NoFile EXCEPT !.created = TRUE]
                      ELSE blob_log
               /\ os_length' = IF created THEN 0 ELSE os_length
               /\ file_writer_' = (file_writer_ \/ created)
               /\ writer_offset_' =
                      IF appended
                      THEN writer_offset_ + HeaderSize(header_slice)
                      ELSE writer_offset_
               /\ file_reader_' = (file_reader_ \/ outcome = "ok")
               /\ fails' = IF outcome = "ok" THEN fails ELSE fails + 1
    /\ UNCHANGED <<blob_dir_empty, has_ttl, next_sync_offset_, mutex_, db, th,
                   puts, syncs, put_failed, last_put, after_failure,
                   ttl_called, ttl_s, orphan, flipped>>

\* ------------------------------------------------------------------------
\* BlobDBImpl::PutUntil, BlobDBImpl::PutWithTTL
\* ------------------------------------------------------------------------
\* Expiration times and TTLs the callers pass, and the clock readings.
Expirations == {0, 1}
Clock == {1}

\* Variant of PutUntil: the value is handed to the primary store.
PutUntilStores(t, key, value, expiration) ==
    /\ open_s = "OK"
    /\ th[t].pc = "idle"
    /\ ttl_called' = ttl_called \cup {key}
    /\ ttl_s' = "OK"
    /\ db' = [db EXCEPT ![key] = value]
    /\ UNCHANGED <<blob_dir_empty, has_ttl, writer_offset_, next_sync_offset_,
                   file_writer_, file_reader_, mutex_, dir_created, blob_log,
                   os_length, open_s, th, puts, fails, syncs, put_failed,
                   last_put, after_failure, orphan, flipped>>

\* PutUntil(options, key, value, expiration): Status s; return s.
PutUntil(t, key, value, expiration) ==
    /\ open_s = "OK"
    /\ th[t].pc = "idle"
    /\ ttl_called' = ttl_called \cup {key}
    /\ ttl_s' = "OK"
    /\ UNCHANGED <<blob_dir_empty, has_ttl, writer_offset_, next_sync_offset_,
                   file_writer_, file_reader_, mutex_, dir_created, blob_log,
                   os_length, db, open_s, th, puts, fails, syncs, put_failed,
                   last_put, after_failure, orphan, flipped>>

\* PutWithTTL(options, key, value, ttl): PutUntil(..., epoch_now + ttl).
PutWithTTL(t, key, value, ttl) ==
    \E epoch_now \in Clock :
        PutUntil(t, key, value, epoch_now + ttl)

\* ------------------------------------------------------------------------
\* BlobDBImpl::Put
\* ------------------------------------------------------------------------
\* trailer[0] = compression; crc over the block contents, extended over the
\* type byte; EncodeFixed32(trailer + 1, Mask(crc)).
Trailer(block_contents, compression) ==
    LET crc == Extend(Value(block_contents), <<compression>>)
    IN <<compression>> \o Mask(crc)

\* writer_offset_ += kBlockHeaderSize, after the header Append returned.
OffsetAfterHeader(offset, ok) == offset + kBlockHeaderSize

\* Variant of PayloadHandle: the handle is set before the offset has been
\* advanced over the length header.
PayloadHandleAtFrame(offset, raw_block_size) ==
    [offset |-> offset - kBlockHeaderSize, size |-> raw_block_size]

\* handle.set_offset(writer_offset_); handle.set_size(raw_block_size).
PayloadHandle(offset, raw_block_size) ==
    [offset |-> offset, size |-> raw_block_size]

\* s.ok() && writer_offset_ > next_sync_offset_
SyncDue(offset, next_sync) == offset > next_sync

\* Variant of OffsetAfterRecord: the trailer is left out of the advance.
OffsetAfterPayload(offset, block_contents) == offset + Len(block_contents)

\* writer_offset_ += block_contents.size() + kBlockTrailerSize
OffsetAfterRecord(offset, block_contents) ==
    offset + Len(block_contents) + kBlockTrailerSize

\* PutVarint64(&index_entry, 0); handle.EncodeTo(&index_entry).
IndexEntry(handle) ==
    PutVarint64(0) \o PutVarint64(handle.offset) \o PutVarint64(handle.size)

\* Variant of NextStep: the status of the Flush is not tested.
NextStepFlushUnchecked(step, ok, due) ==
    IF ~ok /\ step # "flush" THEN "unlock"
    ELSE CASE step = "header" -> "payload"
           [] step = "payload" -> "trailer"
           [] step = "trailer" -> "flush"
           [] step = "flush" -> IF due THEN "sync" ELSE "index"
           [] step = "sync" -> "index"
           [] step = "index" -> "unlock"

\* The chain of if (s.ok()) in the locked scope: the position after a step
\* that returned ok; due is the Sync condition evaluated after the Flush.
NextStep(step, ok, due) ==
    IF ~ok THEN "unlock"
    ELSE CASE step = "header" -> "payload"
           [] step = "payload" -> "trailer"
           [] step = "trailer" -> "flush"
           [] step = "flush" -> IF due THEN "sync" ELSE "index"
           [] step = "sync" -> "index"
           [] step = "index" -> "unlock"

\* What Put computes before it takes the lock, for every key and value of
\* the model: block_builder.Add(key, value); CompressBlock(Finish(), ...,
\* &compression, ...); the trailer.
Encoded ==
    [key \in Keys, value \in Values |->
        LET c == CompressBlock(BlockBuilderFinish(key, value), kLZ4Compression)
        IN [block_contents |-> c[1], trailer |-> Trailer(c[1], c[2])]]

\* Put up to the lock: build and compress the block, compute the trailer.
PutCall(t, key, value) ==
    /\ open_s = "OK"
    /\ th[t].pc = "idle"
    /\ puts < MaxPuts
    /\ th' = [th EXCEPT ![t] =
                 [ThreadInit EXCEPT
                     !.pc = "lock", !.op = "Put", !.key = key, !.value = value,
                     !.waited = (mutex_ # NoThread),
                     !.block_contents = Encoded[key, value].block_contents,
                     !.trailer = Encoded[key, value].trailer]]
    /\ puts' = puts + 1
    /\ UNCHANGED <<blob_dir_empty, has_ttl, writer_offset_, next_sync_offset_,
                   file_writer_, file_reader_, mutex_, dir_created, blob_log,
                   os_length, db, open_s, fails, syncs, put_failed, last_put,
                   after_failure, ttl_called, ttl_s, orphan, flipped>>

\* Variant of CanLock: the scope is entered without the lock.
CanLockUnguarded(holder) == TRUE

\* Variant of CanLock: the locked scope ends before the index put, so the
\* lock is free while its holder is at the index put.
CanLockDuringIndex(holder) ==
    IF holder = NoThread THEN TRUE ELSE th[holder].pc = "index"

\* InstrumentedMutexLock l(&mutex_) returns once no thread holds mutex_.
CanLock(holder) == holder = NoThread

\* InstrumentedMutexLock l(&mutex_); Append of the 8-byte length header;
\* writer_offset_ += kBlockHeaderSize.
PutAppendHeader(t, ok) ==
    /\ th[t].pc = "lock"
    /\ CanLock(mutex_)
    /\ ok \/ fails < MaxFails
    /\ mutex_' = t
    /\ blob_log' =
           FileAppend(blob_log,
                      EncodeFixed(kBlockHeaderSize, Len(th[t].block_contents)),
                      ok)
    /\ writer_offset_' = OffsetAfterHeader(writer_offset_, ok)
    /\ th' = [th EXCEPT ![t].s = Status(ok),
                        ![t].start_offset = writer_offset_,
                        ![t].start_db = db,
                        ![t].steps = <<"header">>,
                        ![t].pc = NextStep("header", ok, FALSE)]
    /\ fails' = IF ok THEN fails ELSE fails + 1
    /\ UNCHANGED <<blob_dir_empty, has_ttl, next_sync_offset_, file_writer_,
                   file_reader_, dir_created, os_length, db, open_s, puts,
                   syncs, put_failed, last_put, after_failure, ttl_called, ttl_s, orphan,
                   flipped>>

\* if (s.ok()): set the handle, Append the block contents.
PutAppendPayload(t, ok) ==
    /\ th[t].pc = "payload"
    /\ ok \/ fails < MaxFails
    /\ blob_log' = FileAppend(blob_log, th[t].block_contents, ok)
    /\ th' = [th EXCEPT ![t].handle =
                            PayloadHandle(writer_offset_,
                                          Len(th[t].block_contents)),
                        ![t].s = Status(ok),
                        ![t].steps = Append(@, "payload"),
                        ![t].pc = NextStep("payload", ok, FALSE)]
    /\ fails' = IF ok THEN fails ELSE fails + 1
    /\ UNCHANGED <<blob_dir_empty, has_ttl, writer_offset_, next_sync_offset_,
                   file_writer_, file_reader_, mutex_, dir_created, os_length,
                   db, open_s, puts, syncs, put_failed, last_put,
                   after_failure, ttl_called, ttl_s, orphan, flipped>>

\* if (s.ok()): Append the trailer.
PutAppendTrailer(t, ok) ==
    /\ th[t].pc = "trailer"
    /\ ok \/ fails < MaxFails
    /\ blob_log' = FileAppend(blob_log, th[t].trailer, ok)
    /\ th' = [th EXCEPT ![t].s = Status(ok),
                        ![t].steps = Append(@, "trailer"),
                        ![t].pc = NextStep("trailer", ok, FALSE)]
    /\ fails' = IF ok THEN fails ELSE fails + 1
    /\ UNCHANGED <<blob_dir_empty, has_ttl, writer_offset_, next_sync_offset_,
                   file_writer_, file_reader_, mutex_, dir_created, os_length,
                   db, open_s, puts, syncs, put_failed, last_put,
                   after_failure, ttl_called, ttl_s, orphan, flipped>>

\* if (s.ok()): Flush.  The next step is the Sync when it is due.
PutFlush(t, ok) ==
    /\ th[t].pc = "flush"
    /\ ok \/ fails < MaxFails
    /\ os_length' = FileFlush(blob_log, os_length, ok)
    /\ th' = [th EXCEPT ![t].s = Status(ok),
                        ![t].steps = Append(@, "flush"),
                        ![t].pc =
                            NextStep("flush", ok,
                                     SyncDue(writer_offset_, next_sync_offset_))]
    /\ fails' = IF ok THEN fails ELSE fails + 1
    /\ UNCHANGED <<blob_dir_empty, has_ttl, writer_offset_, next_sync_offset_,
                   file_writer_, file_reader_, mutex_, dir_created, blob_log,
                   db, open_s, puts, syncs, put_failed, last_put,
                   after_failure, ttl_called, ttl_s, orphan, flipped>>

\* Variant of PutSync: the threshold moves only once the Sync has succeeded.
PutSyncAdvancesOnSuccess(t, ok) ==
    /\ th[t].pc = "sync"
    /\ ok \/ fails < MaxFails
    /\ next_sync_offset_' = IF ok THEN next_sync_offset_ + kBytesPerSync
                            ELSE next_sync_offset_
    /\ syncs' = syncs + 1
    /\ th' = [th EXCEPT ![t].s = Status(ok),
                        ![t].steps = Append(@, "sync"),
                        ![t].pc = NextStep("sync", ok, FALSE)]
    /\ fails' = IF ok THEN fails ELSE fails + 1
    /\ UNCHANGED <<blob_dir_empty, has_ttl, writer_offset_, file_writer_,
                   file_reader_, mutex_, dir_created, blob_log, os_length, db,
                   open_s, puts, put_failed, last_put, after_failure,
                   ttl_called, ttl_s, orphan, flipped>>

\* if (s.ok() && writer_offset_ > next_sync_offset_):
\* next_sync_offset_ += kBytesPerSync; Sync.
PutSync(t, ok) ==
    /\ th[t].pc = "sync"
    /\ ok \/ fails < MaxFails
    /\ next_sync_offset_' = next_sync_offset_ + kBytesPerSync
    /\ syncs' = syncs + 1
    /\ th' = [th EXCEPT ![t].s = Status(ok),
                        ![t].steps = Append(@, "sync"),
                        ![t].pc = NextStep("sync", ok, FALSE)]
    /\ fails' = IF ok THEN fails ELSE fails + 1
    /\ UNCHANGED <<blob_dir_empty, has_ttl, writer_offset_, file_writer_,
                   file_reader_, mutex_, dir_created, blob_log, os_length, db,
                   open_s, puts, put_failed, last_put, after_failure,
                   ttl_called, ttl_s, orphan, flipped>>

\* if (s.ok()): writer_offset_ += block_contents.size() + kBlockTrailerSize;
\* build the index entry; db_->Put(options, key, index_entry).
PutIndex(t, ok) ==
    /\ th[t].pc = "index"
    /\ ok \/ fails < MaxFails
    /\ writer_offset_' = OffsetAfterRecord(writer_offset_, th[t].block_contents)
    /\ db' = IF ok THEN [db EXCEPT ![th[t].key] = IndexEntry(th[t].handle)]
             ELSE db
    /\ last_put' = IF ok THEN [last_put EXCEPT ![th[t].key] = <<th[t].value>>]
                   ELSE last_put
    /\ orphan' = IF ok THEN orphan
                 ELSE <<FileLength(blob_log) - kBlockHeaderSize
                            - Len(th[t].block_contents) - kBlockTrailerSize,
                        FileLength(blob_log)>>
    /\ after_failure' = IF ~ok THEN after_failure
                        ELSE IF put_failed THEN after_failure \cup {th[t].key}
                        ELSE after_failure \ {th[t].key}
    /\ th' = [th EXCEPT ![t].s = Status(ok),
                        ![t].steps = Append(@, "index"),
                        ![t].pc = NextStep("index", ok, FALSE)]
    /\ fails' = IF ok THEN fails ELSE fails + 1
    /\ UNCHANGED <<blob_dir_empty, has_ttl, next_sync_offset_, file_writer_,
                   file_reader_, mutex_, dir_created, blob_log, os_length,
                   open_s, puts, syncs, put_failed, ttl_called, ttl_s,
                   flipped>>

\* Variant of PutReturn: a Put that failed returns without releasing mutex_.
PutReturnHoldsOnError(t) ==
    /\ th[t].pc = "unlock"
    /\ mutex_' = IF th[t].s = "OK" THEN NoThread ELSE mutex_
    /\ th' = [th EXCEPT ![t] = ThreadInit]
    /\ put_failed' = (put_failed \/ th[t].s # "OK")
    /\ UNCHANGED <<blob_dir_empty, has_ttl, writer_offset_, next_sync_offset_,
                   file_writer_, file_reader_, dir_created, blob_log,
                   os_length, db, open_s, puts, fails, syncs, last_put,
                   after_failure, ttl_called, ttl_s, orphan, flipped>>

\* The end of the locked scope, and return s.
PutReturn(t) ==
    /\ th[t].pc = "unlock"
    /\ mutex_' = NoThread
    /\ th' = [th EXCEPT ![t] = ThreadInit]
    /\ put_failed' = (put_failed \/ th[t].s # "OK")
    /\ UNCHANGED <<blob_dir_empty, has_ttl, writer_offset_, next_sync_offset_,
                   file_writer_, file_reader_, dir_created, blob_log,
                   os_length, db, open_s, puts, fails, syncs, last_put,
                   after_failure, ttl_called, ttl_s, orphan, flipped>>

\* ------------------------------------------------------------------------
\* BlobDBImpl::Get
\* ------------------------------------------------------------------------
\* GetVarint64 of the file number, then handle.DecodeFrom: <<status, handle>>.
DecodeIndexEntry(index_entry) ==
    LET file_number == GetVarint64(index_entry, 1)
        offset == IF file_number[1] THEN GetVarint64(index_entry, file_number[3])
                  ELSE <<FALSE, 0, 0>>
        size == IF offset[1] THEN GetVarint64(index_entry, offset[3])
                ELSE <<FALSE, 0, 0>>
    IN IF ~size[1] THEN <<"Corruption", NoHandle>>
       ELSE <<"OK", [offset |-> offset[2], size |-> size[2]]>>

\* Variant of GetIndexEntry: the status of db_->Get is not tested.
GetIndexEntryUnchecked(store, key) == DecodeIndexEntry(store[key])

\* s = db_->Get(options, key, &index_entry), then the decoding of the entry:
\* <<status, handle>>.
GetIndexEntry(store, key) ==
    IF store[key] = <<>> THEN <<"NotFound", NoHandle>>
    ELSE DecodeIndexEntry(store[key])

\* Get up to the read of the log file.
GetIndex(t, key) ==
    /\ open_s = "OK"
    /\ th[t].pc = "idle"
    /\ LET d == GetIndexEntry(db, key)
       IN th' = [th EXCEPT ![t] =
                    [ThreadInit EXCEPT !.pc = "read", !.op = "Get",
                                       !.key = key, !.s = d[1],
                                       !.handle = d[2],
                                       !.expect = last_put[key]]]
    /\ UNCHANGED <<blob_dir_empty, has_ttl, writer_offset_, next_sync_offset_,
                   file_writer_, file_reader_, mutex_, dir_created, blob_log,
                   os_length, db, open_s, puts, fails, syncs, put_failed,
                   last_put, after_failure, ttl_called, ttl_s, orphan, flipped>>

\* Variant of GetResult: after a failed read, the status of the index lookup
\* is returned in place of the status of the read.
GetResultLookupStatus(s, f, flushed, handle) ==
    IF s # "OK" THEN <<s, <<>>>>
    ELSE LET r == ReadBlockContents(f, flushed, handle)
         IN IF r[1] # "OK" THEN <<s, <<>>>> ELSE BlockFirstValue(r[2])

\* What Get returns from there, <<status, *value>>: the status of the index
\* lookup if it is not OK, else ReadBlockContents, Block, SeekToFirst,
\* *value = it->value().
GetResult(s, f, flushed, handle) ==
    IF s # "OK" THEN <<s, <<>>>>
    ELSE LET r == ReadBlockContents(f, flushed, handle)
         IN IF r[1] # "OK" THEN <<r[1], <<>>>> ELSE BlockFirstValue(r[2])

\* The value thread t's Get returns when it returns in this state.
Returns(t) == GetResult(th[t].s, blob_log, os_length, th[t].handle)

\* The rest of Get: the read of the block, and the return of Returns(t).
GetRead(t) ==
    /\ th[t].pc = "read"
    /\ th' = [th EXCEPT ![t] = ThreadInit]
    /\ UNCHANGED <<blob_dir_empty, has_ttl, writer_offset_, next_sync_offset_,
                   file_writer_, file_reader_, mutex_, dir_created, blob_log,
                   os_length, db, open_s, puts, fails, syncs, put_failed,
                   last_put, after_failure, ttl_called, ttl_s, orphan, flipped>>

\* ------------------------------------------------------------------------
\* Specifications
\* ------------------------------------------------------------------------
\* Every I/O step succeeds; NumThreads threads call concurrently.
Next ==
    \/ \E intact \in BOOLEAN : Open("ok", intact)
    \/ \E t \in Threads, k \in Keys, v \in Values : PutCall(t, k, v)
    \/ \E t \in Threads : PutAppendHeader(t, TRUE)
    \/ \E t \in Threads : PutAppendPayload(t, TRUE)
    \/ \E t \in Threads : PutAppendTrailer(t, TRUE)
    \/ \E t \in Threads : PutFlush(t, TRUE)
    \/ \E t \in Threads : PutSync(t, TRUE)
    \/ \E t \in Threads : PutIndex(t, TRUE)
    \/ \E t \in Threads : PutReturn(t)
    \/ \E t \in Threads, k \in Keys : GetIndex(t, k)
    \/ \E t \in Threads : GetRead(t)

Spec == Init /\ [][Next]_vars

\* One thread; up to MaxFails I/O steps fail.
NextFail ==
    \/ \E intact \in BOOLEAN : Open("ok", intact)
    \/ \E k \in Keys, v \in Values : PutCall(1, k, v)
    \/ \E ok \in BOOLEAN : PutAppendHeader(1, ok)
    \/ \E ok \in BOOLEAN : PutAppendPayload(1, ok)
    \/ \E ok \in BOOLEAN : PutAppendTrailer(1, ok)
    \/ \E ok \in BOOLEAN : PutFlush(1, ok)
    \/ \E ok \in BOOLEAN : PutSync(1, ok)
    \/ \E ok \in BOOLEAN : PutIndex(1, ok)
    \/ PutReturn(1)
    \/ \E k \in Keys : GetIndex(1, k)
    \/ GetRead(1)
    \/ \E k \in Keys, v \in Values, e \in Expirations : PutUntil(1, k, v, e)
    \/ \E k \in Keys, v \in Values, e \in Expirations : PutWithTTL(1, k, v, e)

SpecFail == Init /\ [][NextFail]_vars

\* One thread, every I/O step of Put succeeds; up to MaxFails calls of Open
\* fail, each at any of its steps, and Open is called again.
NextOpen ==
    \/ \E outcome \in OpenOutcomes, intact \in BOOLEAN : Open(outcome, intact)
    \/ \E k \in Keys, v \in Values : PutCall(1, k, v)
    \/ PutAppendHeader(1, TRUE)
    \/ PutAppendPayload(1, TRUE)
    \/ PutAppendTrailer(1, TRUE)
    \/ PutFlush(1, TRUE)
    \/ PutSync(1, TRUE)
    \/ PutIndex(1, TRUE)
    \/ PutReturn(1)
    \/ \E k \in Keys : GetIndex(1, k)
    \/ GetRead(1)

SpecOpen == Init /\ [][NextOpen]_vars

\* The next step of the call thread t is in.
PutStep(t) ==
    \/ \E ok \in BOOLEAN : PutAppendHeader(t, ok)
    \/ \E ok \in BOOLEAN : PutAppendPayload(t, ok)
    \/ \E ok \in BOOLEAN : PutAppendTrailer(t, ok)
    \/ \E ok \in BOOLEAN : PutFlush(t, ok)
    \/ \E ok \in BOOLEAN : PutSync(t, ok)
    \/ \E ok \in BOOLEAN : PutIndex(t, ok)
    \/ PutReturn(t)

\* NumThreads threads call Put and Get concurrently; up to MaxFails I/O
\* steps fail.  Which key and value a call names has no part in what it
\* waits for: the calls here name one key and the empty value.
NextLive ==
    \/ Open("ok", TRUE)
    \/ \E t \in Threads : PutCall(t, <<1>>, <<>>)
    \/ \E t \in Threads : PutStep(t)
    \/ \E t \in Threads : GetIndex(t, <<1>>)
    \/ \E t \in Threads : GetRead(t)

\* Fair scheduling: a thread inside a call whose next step stays possible
\* takes it.  The I/O calls return, and the mutex is granted to a waiting
\* thread once it stays free.
SpecLive ==
    /\ Init
    /\ [][NextLive]_vars
    /\ \A t \in Threads : WF_vars(PutStep(t)) /\ WF_vars(GetRead(t))

\* The file offsets of the payload and the trailer of the record the index
\* entry of key names.
RecordBytes(key) ==
    IF db[key] = <<>> THEN {}
    ELSE LET h == DecodeIndexEntry(db[key])[2]
         IN h.offset .. (h.offset + h.size + kBlockTrailerSize - 1)

\* One bit of the log file changes on disk, in the payload or the trailer
\* of a record an index entry names, while no Put is running.
Corrupt(key, pos, bit) ==
    /\ flipped = -1
    /\ \A t \in Threads : th[t].op # "Put"
    /\ pos \in RecordBytes(key)
    /\ pos < os_length
    /\ blob_log' =
           [blob_log EXCEPT !.data[pos - blob_log.header_size + 1] =
                                XorByte[@][2 ^ bit]]
    /\ flipped' = pos
    /\ UNCHANGED <<blob_dir_empty, has_ttl, writer_offset_, next_sync_offset_,
                   file_writer_, file_reader_, mutex_, dir_created, os_length,
                   db, open_s, th, puts, fails, syncs, put_failed, last_put,
                   after_failure, ttl_called, ttl_s, orphan>>

\* One thread, every I/O step succeeds, and one bit flips on disk; the Puts
\* come before the flip, the Gets before and after it.
NextCorrupt ==
    \/ \E intact \in BOOLEAN : Open("ok", intact)
    \/ \E k \in Keys, v \in Values : flipped = -1 /\ PutCall(1, k, v)
    \/ PutAppendHeader(1, TRUE)
    \/ PutAppendPayload(1, TRUE)
    \/ PutAppendTrailer(1, TRUE)
    \/ PutFlush(1, TRUE)
    \/ PutSync(1, TRUE)
    \/ PutIndex(1, TRUE)
    \/ PutReturn(1)
    \/ \E k \in Keys : GetIndex(1, k)
    \/ GetRead(1)
    \/ \E k \in Keys : \E pos \in RecordBytes(k), bit \in 0 .. 7 :
           Corrupt(k, pos, bit)

SpecCorrupt == Init /\ [][NextCorrupt]_vars

\* ------------------------------------------------------------------------
\* Reading the state: handles, frames, calls about to return
\* ------------------------------------------------------------------------
\* The handle the index entry of key holds (key present).
HandleOf(key) == DecodeIndexEntry(db[key])[2]
\* Bytes [from, to) of the log file, as accepted by the writer.
FileBytes(from, to) ==
    SubSeq(blob_log.data, from - blob_log.header_size + 1,
           to - blob_log.header_size)
\* The frame at file offset at, if the bytes there are a complete frame:
\* the 8-byte length n, n payload bytes and a trailer.
FrameAt(at) ==
    IF at + kBlockHeaderSize > FileLength(blob_log) THEN [ok |-> FALSE, n |-> 0]
    ELSE LET len == FileBytes(at, at + kBlockHeaderSize)
             n == len[1]
             end == at + kBlockHeaderSize + n + kBlockTrailerSize
         IN [ok |-> len = EncodeFixed(kBlockHeaderSize, n)
                      /\ end <= FileLength(blob_log),
             n |-> IF end <= FileLength(blob_log) THEN n ELSE 0]
RECURSIVE Frames(_)
\* The payload lengths of the frames from file offset at to the end of the
\* file; <<-1>> ends the list where the bytes are not a complete frame.
Frames(at) ==
    IF at >= FileLength(blob_log) THEN <<>>
    ELSE LET f == FrameAt(at)
         IN IF ~f.ok THEN <<-1>>
            ELSE <<f.n>> \o Frames(at + kBlockHeaderSize + f.n + kBlockTrailerSize)
RECURSIVE FramesIntact(_, _, _)
\* The masked CRC in the trailer of each of the frames lens[i..], the first
\* of them at file offset at, is the CRC of its payload and type byte.
FramesIntact(lens, i, at) ==
    IF i > Len(lens) THEN TRUE
    ELSE LET end == at + kBlockHeaderSize + lens[i] + kBlockTrailerSize
         IN /\ lens[i] >= 0
            /\ Unmask(FileBytes(end - 4, end))
                   = Value(FileBytes(at + kBlockHeaderSize, end - 4))
            /\ FramesIntact(lens, i + 1, end)
RECURSIVE SumRecords(_, _)
SumRecords(lens, i) ==
    IF i > Len(lens) THEN 0
    ELSE kBlockHeaderSize + lens[i] + kBlockTrailerSize + SumRecords(lens, i + 1)

\* Thread t is in Get, past the lookup in the primary store.
Getting(t) == th[t].pc = "read"
\* Thread t is at the end of the locked scope of Put, about to return s.
PutEnding(t) == th[t].pc = "unlock"
\* No thread is between the first and the last step of the locked scope.
Quiet == \A t \in Threads : mutex_ = t => PutEnding(t)
\* Put calls that have been through the locked scope.
PutsAppended == puts - Cardinality({t \in Threads : th[t].pc = "lock"})

\* ------------------------------------------------------------------------
\* C1
\* ------------------------------------------------------------------------
\* C1: with every I/O step succeeding, a Get that found in the primary store
\* the entry of the last successful Put(k, v) returns OK and exactly v.
C1_RoundTrip ==
    \A t \in Threads :
        Getting(t) /\ th[t].expect # <<>>
            => Returns(t) = <<"OK", th[t].expect[1]>>
\* A Get returns the empty value after the appended bytes passed one sync
\* interval and a Sync was issued.
C1_Witness ==
    \E t \in Threads :
        /\ Getting(t) /\ th[t].expect = << <<>> >>
        /\ Returns(t) = <<"OK", <<>>>>
        /\ syncs > 0 /\ os_length > kBytesPerSync

\* ------------------------------------------------------------------------
\* C2
\* ------------------------------------------------------------------------
\* C2: every index entry in the primary store names a byte range, payload
\* through trailer, inside the part of the log file handed to the OS.
C2_PublishAfterFlush ==
    \A k \in Keys :
        db[k] # <<>>
            => HandleOf(k).offset + HandleOf(k).size + kBlockTrailerSize
                   <= os_length

\* ------------------------------------------------------------------------
\* C3
\* ------------------------------------------------------------------------
\* C3: with every I/O step succeeding and Puts running concurrently, each
\* time a Put reaches the end of the locked scope the log file is the header
\* followed by one complete frame per Put that has appended, each with a
\* good checksum; every key in the primary store names the payload of a
\* frame of its own last Put, behind the header, the frames of different
\* keys are disjoint, and a Get of the key returns its value.
C3_ConcurrentWriters ==
    (\E t \in Threads : PutEnding(t)) =>
        LET frames == Frames(blob_log.header_size)
        IN /\ Len(frames) = PutsAppended
           /\ FramesIntact(frames, 1, blob_log.header_size)
           /\ \A k \in Keys :
                  db[k] # <<>> =>
                      LET h == HandleOf(k)
                          e == Encoded[k, last_put[k][1]]
                      IN /\ h.offset - kBlockHeaderSize >= blob_log.header_size
                         /\ FrameAt(h.offset - kBlockHeaderSize)
                                = [ok |-> TRUE, n |-> h.size]
                         /\ FileBytes(h.offset, h.offset + h.size)
                                = e.block_contents
                         /\ FileBytes(h.offset + h.size,
                                      h.offset + h.size + kBlockTrailerSize)
                                = e.trailer
                         /\ GetResult("OK", blob_log, os_length, h)
                                = <<"OK", last_put[k][1]>>
           /\ \A k1, k2 \in Keys :
                  k1 # k2 /\ db[k1] # <<>> /\ db[k2] # <<>> =>
                      \/ HandleOf(k1).offset + HandleOf(k1).size
                             + kBlockTrailerSize
                             <= HandleOf(k2).offset - kBlockHeaderSize
                      \/ HandleOf(k2).offset + HandleOf(k2).size
                             + kBlockTrailerSize
                             <= HandleOf(k1).offset - kBlockHeaderSize
\* A Put that was called while another thread held the lock ends with OK,
\* and both keys are in the primary store.
C3_Witness ==
    \E t \in Threads :
        /\ PutEnding(t) /\ th[t].waited /\ th[t].s = "OK"
        /\ \A k \in Keys : db[k] # <<>>
        /\ Len(Frames(blob_log.header_size)) = Cardinality(Keys)

\* ------------------------------------------------------------------------
\* C4
\* ------------------------------------------------------------------------
\* C4: whenever no Put is inside the locked scope and a Flush has succeeded,
\* writer_offset_ equals the length of the log file as of the last
\* successful Flush, after successful and failed Puts alike.
C4_OffsetIsFileLength ==
    mutex_ = NoThread /\ os_length > 0 => writer_offset_ = os_length

\* ------------------------------------------------------------------------
\* C5
\* ------------------------------------------------------------------------
\* The size of the header createHeader builds, with and without TTL.
EncodedHeaderSize ==
    [ttl \in BOOLEAN |-> HeaderSize(createHeader(ttl, <<>>))]
\* C5: with no failed call, after Open and N Puts writer_offset_ equals the
\* size of the file header plus, over the N records, the 8-byte length
\* header, the payload length and the trailer size; it equals the length of
\* the log file; and every Put that ends with OK has increased it, by the
\* size of its record.
C5_OffsetAccounting ==
    /\ Quiet /\ open_s = "OK" =>
           LET records == Frames(blob_log.header_size)
           IN /\ Len(records) = PutsAppended
              /\ writer_offset_
                     = EncodedHeaderSize[has_ttl]
                           + SumRecords(records, 1)
              /\ writer_offset_ = FileLength(blob_log)
              /\ PutsAppended > 0 => writer_offset_ = os_length
    /\ \A t \in Threads :
           PutEnding(t) /\ th[t].s = "OK" =>
               /\ writer_offset_ > th[t].start_offset
               /\ writer_offset_
                      = th[t].start_offset + kBlockHeaderSize
                            + Len(th[t].block_contents) + kBlockTrailerSize
\* The second of two Puts ends with OK, one record compressed and the other
\* not.
C5_Witness ==
    \E t \in Threads :
        /\ PutEnding(t) /\ th[t].s = "OK"
        /\ PutsAppended = 2
        /\ Frames(blob_log.header_size)[1] # Frames(blob_log.header_size)[2]
        /\ th[t].start_offset > blob_log.header_size

\* ------------------------------------------------------------------------
\* C6
\* ------------------------------------------------------------------------
\* The byte that changed on disk lies in the payload or the trailer of the
\* record the handle names.
FlippedIn(handle) ==
    /\ flipped >= handle.offset
    /\ flipped < handle.offset + handle.size + kBlockTrailerSize
CrossesBoundary(from, to) ==
    \E m \in 1 .. (to \div kBytesPerSync) :
        from <= m * kBytesPerSync /\ m * kBytesPerSync < to
\* C7: a Put that ends with OK has issued a Sync exactly if the bytes it
\* appended crossed a multiple of kBytesPerSync.
C7_SyncCadence ==
    \A t \in Threads :
        PutEnding(t) /\ th[t].s = "OK" =>
            (("sync" \in {th[t].steps[i] : i \in 1 .. Len(th[t].steps)})
                 <=> CrossesBoundary(th[t].start_offset, writer_offset_))

\* ------------------------------------------------------------------------
\* C8
\* ------------------------------------------------------------------------
\* C8: after a Put has failed with an I/O error, a Get that found the entry
\* of a later Put(k, v) that returned OK returns OK and exactly v.
C8_RetryReadable ==
    \A t \in Threads :
        Getting(t) /\ th[t].key \in after_failure /\ th[t].expect # <<>>
            => Returns(t) = <<"OK", th[t].expect[1]>>

\* ------------------------------------------------------------------------
\* C9
\* ------------------------------------------------------------------------
\* The steps of the locked scope, in order; the Sync is left out when it is
\* not due.
StepOrder == <<"header", "payload", "trailer", "flush", "sync", "index">>
StepOrderNoSync == <<"header", "payload", "trailer", "flush", "index">>
IsPrefix(s, of) == Len(s) <= Len(of) /\ s = SubSeq(of, 1, Len(s))
\* C9: once the header Append, the payload Append, the trailer Append, the
\* Flush or the Sync of a Put has failed, the Put executes no other step:
\* it is at its return, with that step's error, the failed step is the last
\* it executed, and the primary store is as it was when the Put began.
C9_FailedPutPublishesNothing ==
    \A t \in Threads :
        (/\ th[t].op = "Put" /\ th[t].s # "OK"
         /\ th[t].steps[Len(th[t].steps)] # "index")
            => /\ PutEnding(t)
               /\ th[t].s = "IOError"
               /\ db = th[t].start_db
               /\ IsPrefix(th[t].steps, StepOrder)
                      \/ IsPrefix(th[t].steps, StepOrderNoSync)
\* The Flush of a Put fails while the key has an earlier record: its index
\* entry stays.
C9_Witness ==
    \E t \in Threads :
        /\ PutEnding(t) /\ th[t].s = "IOError"
        /\ th[t].steps = <<"header", "payload", "trailer", "flush">>
        /\ db[th[t].key] # <<>>
        /\ last_put[th[t].key] # <<th[t].value>>
        /\ db = th[t].start_db

\* ------------------------------------------------------------------------
\* C10
\* ------------------------------------------------------------------------
\* C10: a Get of a key for which no Put has succeeded returns NotFound,
\* whatever was written under other keys, whichever Puts failed, and
\* whether or not PutWithTTL or PutUntil was called for the key.
C10_MissingKey ==
    \A t \in Threads :
        Getting(t) /\ th[t].expect = <<>>
            => Returns(t) = <<"NotFound", <<>>>>
\* A Get of a key returns NotFound after PutUntil was called for the key, a
\* Put has failed, and another key was written.
C10_Witness ==
    \E t \in Threads :
        /\ Getting(t) /\ th[t].expect = <<>>
        /\ th[t].key \in ttl_called
        /\ put_failed
        /\ \E k \in Keys : db[k] # <<>>
        /\ Returns(t)[1] = "NotFound"

\* ------------------------------------------------------------------------
\* C11
\* ------------------------------------------------------------------------
\* C11: when a Put ends with OK, the index record under its key is file
\* number 0 followed by the handle; the offset of the handle is
\* writer_offset_ as it was before the append plus the 8-byte length
\* header, which is where the first payload byte is in the file; its size is
\* the length of the compressed payload, the value in the length header of
\* the record.
C11_IndexRecordContent ==
    \A t \in Threads :
        PutEnding(t) /\ th[t].s = "OK" =>
            LET file_number == GetVarint64(db[th[t].key], 1)
                h == HandleOf(th[t].key)
            IN /\ db[th[t].key]
                      = PutVarint64(0)
                            \o PutVarint64(th[t].start_offset + kBlockHeaderSize)
                            \o PutVarint64(Len(th[t].block_contents))
               /\ file_number[1] /\ file_number[2] = 0
               /\ h.offset = th[t].start_offset + kBlockHeaderSize
               /\ h.size = Len(th[t].block_contents)
               /\ h.offset + h.size <= FileLength(blob_log)
               /\ FileBytes(h.offset, h.offset + h.size) = th[t].block_contents
               /\ FileBytes(h.offset - kBlockHeaderSize, h.offset)
                      = EncodeFixed(kBlockHeaderSize, h.size)

\* ------------------------------------------------------------------------
\* C12
\* ------------------------------------------------------------------------
\* What a Get of key returns when it runs entirely in a state with this
\* primary store, log file and flushed length.
GetOf(store, f, flushed, key) ==
    GetResult(GetIndexEntry(store, key)[1], f, flushed,
              GetIndexEntry(store, key)[2])
\* C12: a call of PutUntil or PutWithTTL returns OK and leaves
\* writer_offset_, next_sync_offset_, the log file and the primary store as
\* they were, so that a Get of any key returns after the call what it
\* returned before it.
C12_TTLStubsChangeNothing ==
    [][(ttl_called' # ttl_called \/ ttl_s' # ttl_s) =>
           /\ ttl_s' = "OK"
           /\ UNCHANGED <<writer_offset_, next_sync_offset_, blob_log,
                          os_length, db>>
           /\ \A k \in Keys :
                  GetOf(db', blob_log', os_length', k)
                      = GetOf(db, blob_log, os_length, k)]_vars
\* PutUntil or PutWithTTL has returned for a key that has a record, and for
\* a key that has none.
C12_Witness ==
    /\ ttl_s = "OK"
    /\ \E k \in ttl_called : db[k] # <<>> /\ GetOf(db, blob_log, os_length, k)[1] = "OK"
    /\ \E k \in ttl_called : db[k] = <<>>
    /\ writer_offset_ > blob_log.header_size

\* ------------------------------------------------------------------------
\* C13
\* ------------------------------------------------------------------------
\* C13: with an empty blob_dir, Open returns NotSupported and has no
\* effect: no directory and no log file are created, no writer and no reader
\* are installed, and writer_offset_ stays 0.
C13_OpenWithoutBlobDir ==
    blob_dir_empty =>
        /\ open_s \in {"none", "NotSupported"}
        /\ ~dir_created
        /\ blob_log = NoFile
        /\ ~file_writer_ /\ ~file_reader_
        /\ writer_offset_ = 0
\* Open has returned NotSupported.
C13_Witness == blob_dir_empty /\ open_s = "NotSupported"

\* ------------------------------------------------------------------------
\* C14
\* ------------------------------------------------------------------------
\* C14: under fair scheduling every Put that waits for mutex_ comes to hold
\* it and every call returns; mutex_ is held only by a thread inside Put, so
\* it is released on every way out of Put, the failing ones included; and
\* the read of a Get can take place whoever holds mutex_.
C14_EveryCallCompletes ==
    /\ [](\A t \in Threads : mutex_ = t => th[t].op = "Put")
    /\ [](\A t \in Threads : Getting(t) => ENABLED GetRead(t))
    /\ \A t \in Threads : (th[t].pc = "lock") ~> (mutex_ = t)
    /\ \A t \in Threads : (th[t].pc # "idle") ~> (th[t].pc = "idle")
\* A Put waits for mutex_ while the Put that holds it has failed and is
\* about to return.
C14_Witness ==
    \E t, u \in Threads :
        /\ th[t].pc = "lock" /\ th[t].waited
        /\ mutex_ = u /\ PutEnding(u) /\ th[u].s = "IOError"

\* ------------------------------------------------------------------------
\* C15
\* ------------------------------------------------------------------------
\* The value of the property name in the header of the log file, <<>> if
\* the header has no such property.
HeaderProperty(name) ==
    LET at == {i \in 1 .. Len(blob_log.header) : blob_log.header[i][1] = name}
    IN IF at = {} THEN <<>> ELSE blob_log.header[CHOOSE i \in at : TRUE][2]
\* C15: after a successful Open the header of the log file holds magic,
\* version 0, has_ttl (0 or 1) and compression; it holds earliest and latest
\* exactly when has_ttl is set, both 0; and it is in front of every record.
C15_TTLHeaderFields ==
    open_s = "OK" =>
        /\ HeaderProperty("magic") = kBlockBasedTableMagicNumber
        /\ HeaderProperty("version") = PutVarint64(0)
        /\ HeaderProperty("has_ttl") = PutVarint64(IF has_ttl THEN 1 ELSE 0)
        /\ HeaderProperty("compression") = PutVarint64(kLZ4Compression)
        /\ HeaderProperty("earliest")
               = (IF has_ttl THEN PutVarint64(0) ELSE <<>>)
        /\ HeaderProperty("latest")
               = (IF has_ttl THEN PutVarint64(0) ELSE <<>>)
        /\ Len(blob_log.header) = IF has_ttl THEN 6 ELSE 4
        /\ blob_log.header_size = EncodedHeaderSize[has_ttl]

\* ------------------------------------------------------------------------
\* C16
\* ------------------------------------------------------------------------
\* The steps of thread t's Put that have succeeded: all it has called but
\* the last one, when the Put has failed.
Succeeded(t) ==
    IF th[t].s = "OK" THEN th[t].steps
    ELSE SubSeq(th[t].steps, 1, Len(th[t].steps) - 1)
\* The bytes a step of thread t's Put appends to the log file.
StepBytes(t, step) ==
    CASE step = "header" -> kBlockHeaderSize
      [] step = "payload" -> Len(th[t].block_contents)
      [] step = "trailer" -> kBlockTrailerSize
      [] OTHER -> 0
RECURSIVE BytesOf(_, _, _)
BytesOf(t, steps, i) ==
    IF i > Len(steps) THEN 0
    ELSE StepBytes(t, steps[i]) + BytesOf(t, steps, i + 1)
\* C16: when a Put ends, writer_offset_ has grown by the bytes of the steps
\* of the Put that succeeded and by no others: not by the 8 bytes of a
\* length header whose Append failed, and by the payload length once the
\* payload Append succeeded, whatever fails after it.
C16_OffsetsFollowSucceededSteps ==
    \A t \in Threads :
        PutEnding(t) =>
            writer_offset_
                = th[t].start_offset + BytesOf(t, Succeeded(t), 1)

\* ------------------------------------------------------------------------
\* C17
\* ------------------------------------------------------------------------
\* C17: after an Open that returned OK, whatever Open calls failed before
\* it, writer_offset_ is the size of the header, the length of the log file
\* just created, until the first Put appends; the handle of the first Put
\* has the offset header size + 8.
C17_OpenRetrySafe ==
    open_s = "OK" =>
        /\ (\A t \in Threads : th[t].op = "Put" => th[t].pc = "lock") =>
               /\ puts = 0 => writer_offset_ = EncodedHeaderSize[has_ttl]
               /\ puts = 0 => writer_offset_ = FileLength(blob_log)
        /\ \A t \in Threads :
               PutEnding(t) /\ th[t].s = "OK" /\ puts = 1 =>
                   th[t].handle.offset
                       = EncodedHeaderSize[has_ttl] + kBlockHeaderSize

\* ------------------------------------------------------------------------
\* C18
\* ------------------------------------------------------------------------
\* The payloads the Puts of key write, one for each value.
PayloadsOf(key) == {Encoded[key, v].block_contents : v \in Values}
RECURSIVE KeyAppendedFrom(_, _)
\* A frame at or after file offset at holds a record of key.
KeyAppendedFrom(key, at) ==
    IF at >= FileLength(blob_log) \/ ~FrameAt(at).ok THEN FALSE
    ELSE LET n == FrameAt(at).n
             payload == FileBytes(at + kBlockHeaderSize,
                                  at + kBlockHeaderSize + n)
         IN \/ payload \in PayloadsOf(key)
            \/ KeyAppendedFrom(key,
                               at + kBlockHeaderSize + n + kBlockTrailerSize)
\* C18: with every I/O step succeeding and Puts of the same key running
\* concurrently, every change of the index record of a key moves it to the
\* record appended last, at a higher offset than the record it named
\* before, and a Get of the key then returns the value of that Put; and
\* each time a Put reaches the end of the locked scope, no record of a key
\* lies behind the one its index record names.
C18_IndexFollowsLogOrder ==
    /\ []((\E t \in Threads : PutEnding(t)) =>
              \A k \in Keys :
                  db[k] # <<>> =>
                      ~KeyAppendedFrom(k, HandleOf(k).offset + HandleOf(k).size
                                             + kBlockTrailerSize))
    /\ [][\A k \in Keys :
              db'[k] # db[k] =>
                  /\ db[k] # <<>> => HandleOf(k)'.offset > HandleOf(k).offset
                  /\ HandleOf(k)'.offset + HandleOf(k)'.size + kBlockTrailerSize
                         = FileLength(blob_log')
                  /\ GetOf(db', blob_log', os_length', k)
                         = <<"OK", last_put'[k][1]>>]_vars
\* Two Puts of the same key with different values overlapped; both have
\* appended, and the index record of the key names the second record.
C18_Witness ==
    \E t \in Threads :
        /\ PutEnding(t) /\ th[t].waited /\ th[t].s = "OK"
        /\ PutsAppended = 2
        /\ KeyAppendedFrom(th[t].key, blob_log.header_size)
        /\ KeyAppendedFrom(th[t].key,
                           blob_log.header_size + kBlockHeaderSize
                               + Frames(blob_log.header_size)[1]
                               + kBlockTrailerSize)
        /\ \A k \in Keys : k # th[t].key => db[k] = <<>>
        /\ Frames(blob_log.header_size)[1] # Frames(blob_log.header_size)[2]
        /\ HandleOf(th[t].key).offset
               > blob_log.header_size + kBlockHeaderSize


\* ------------------------------------------------------------------------
\* C19
\* ------------------------------------------------------------------------
\* The bytes of the record thread t's Put writes: length header, payload
\* and trailer.
RecordOf(t) ==
    EncodeFixed(kBlockHeaderSize, Len(th[t].block_contents))
        \o th[t].block_contents \o th[t].trailer
\* The last step of thread t's Put was the index put, and it failed.
IndexPutFailed(t) ==
    /\ PutEnding(t)
    /\ th[t].steps[Len(th[t].steps)] = "index"
    /\ th[t].s # "OK"
\* C19: when the appends, the Flush and the Sync (if due) of a Put succeed
\* and the put into the primary store fails, the Put returns the store's
\* error, writer_offset_ has advanced by the whole record (length header,
\* payload, trailer) and is the length of the file, whose last bytes are
\* that record, and the primary store is as it was when the Put took the
\* lock; the record of every later successful Put, as its index record
\* names it and as it lies in the file, starts at or after the end of the
\* orphaned record.
C19_OrphanedRecordOnIndexFailure ==
    \A t \in Threads :
        /\ IndexPutFailed(t) =>
               /\ th[t].s = "IOError"
               /\ writer_offset_ = th[t].start_offset + Len(RecordOf(t))
               /\ orphan = <<FileLength(blob_log) - Len(RecordOf(t)),
                             FileLength(blob_log)>>
               /\ FileBytes(orphan[1], orphan[2]) = RecordOf(t)
               /\ writer_offset_ = FileLength(blob_log)
               /\ db = th[t].start_db
        /\ PutEnding(t) /\ th[t].s = "OK" /\ orphan # <<>> =>
               /\ FileLength(blob_log) - Len(RecordOf(t)) >= orphan[2]
               /\ th[t].handle.offset - kBlockHeaderSize >= orphan[2]
               /\ HandleOf(th[t].key) = th[t].handle


\* ------------------------------------------------------------------------
\* C20
\* ------------------------------------------------------------------------
\* The positions of the Sync among the steps thread t's Put has called.
SyncSteps(t) == {i \in 1 .. Len(th[t].steps) : th[t].steps[i] = "sync"}
\* The last step of thread t's Put was the Sync, and it failed.
SyncFailed(t) ==
    /\ PutEnding(t)
    /\ th[t].steps[Len(th[t].steps)] = "sync"
    /\ th[t].s # "OK"
\* C20: in every state next_sync_offset_ is kBytesPerSync times one more
\* than the number of Sync calls issued, failed ones included; a Put calls
\* Sync at most once, directly after its Flush, which succeeded; every Sync
\* is issued for a threshold writer_offset_ has passed and moves the
\* threshold one interval forward whether it succeeds or not, so that no
\* two Sync calls, failed or not, are issued for the same threshold.
C20_SyncThresholdBookkeeping ==
    /\ [](/\ next_sync_offset_ = kBytesPerSync * (1 + syncs)
          /\ \A t \in Threads :
                 /\ Cardinality(SyncSteps(t)) <= 1
                 /\ \A i \in SyncSteps(t) :
                        /\ i > 1
                        /\ th[t].steps[i - 1] = "flush"
                        /\ i = Len(th[t].steps) - 1 => th[t].steps[i + 1] = "index"
                 /\ SyncFailed(t) =>
                        writer_offset_ > next_sync_offset_ - kBytesPerSync)
    /\ [][syncs' # syncs =>
              /\ syncs' = syncs + 1
              /\ writer_offset_ > next_sync_offset_
              /\ next_sync_offset_' = next_sync_offset_ + kBytesPerSync
              /\ \E t \in Threads :
                     /\ th[t].steps[Len(th[t].steps)] = "flush"
                     /\ th[t].s = "OK"
                     /\ th'[t].steps = Append(th[t].steps, "sync")]_vars
\* A Put whose Flush succeeded called Sync, and the Sync failed.
C20_Witness ==
    \E t \in Threads :
        /\ SyncFailed(t)
        /\ syncs = 1
        /\ next_sync_offset_ = 2 * kBytesPerSync

====
